---------------------------- MODULE Spec2Model ----------------------------
(***************************************************************************)
(* Model of git-branchless' Git hook handlers (src/commands/hooks.rs):     *)
(* hook_post_rewrite, hook_post_checkout, hook_post_commit and             *)
(* hook_reference_transaction, together with the event log they append to. *)
(*                                                                         *)
(* Every hook invocation is a separate operating-system process.  The only *)
(* state the processes share is the event log database, which a handler    *)
(* touches in two calls: make_transaction_id and add_events.  A handler is *)
(* therefore modelled by two atomic steps, one ending with each call;      *)
(* everything else a handler does (reading stdin, parsing) is local to its *)
(* process and belongs to the step that follows it in the code.            *)
(* hook_post_rewrite has a third step, warn_abandoned, which reads the     *)
(* database again.  hook_drop_commit_if_empty touches no database: it      *)
(* moves HEAD and adds lines to the rewritten-list file of the rebase.     *)
(*                                                                         *)
(* EventLogDb, EventReplayer, MergeBaseDb, make_graph,                     *)
(* find_abandoned_children, should_ignore_ref_updates and the oid types    *)
(* live outside hooks.rs; they are modelled from the design document.      *)
(*                                                                         *)
(* A line of text is a sequence of chunks.  The chunk SP is one space      *)
(* byte; every other chunk is a run of bytes that contains no space, so    *)
(* two adjacent chunks concatenate into one longer word.                   *)
(***************************************************************************)
EXTENDS Integers, Sequences, FiniteSets, TLC

(***************************************************************************)
(* Bounds                                                                  *)
(***************************************************************************)
\* Number of hook processes that may run concurrently (Spec).
NumProcs == 2
\* Longest stdin batch, in lines, of a single hook invocation (SpecOne).
MaxLines == 2
\* Longest line, in chunks, handed to the line parser (SpecParse).
MaxLineLen == 6
\* Longest event log that other commands build (SpecReplay).
MaxEvents == 4
\* Most puts to the merge-base cache (SpecCache).
MaxPuts == 3

(***************************************************************************)
(* Text                                                                    *)
(***************************************************************************)
SP == " "
OidA == "123abc"
OidB == "456def"
ZeroHex == "000000"
RefBranch == "refs/heads/mybranch"
OrigHead == "ORIG_HEAD"
HeadRef == "HEAD"

\* More object ids: two further commits, the commit of the main branch, and
\* an id that names no object of the repository.
OidC == "789abc"
OidD == "abc789"
OidM == "fedcba"
OidX == "deadbe"

\* Chunks made of hexadecimal digits only.
HexChunks == {OidA, OidB, OidC, OidD, OidM, OidX, ZeroHex}

RECURSIVE SplitFrom(_, _, _, _, _)
SplitFrom(s, i, cur, fields, keepLast) ==
    IF i > Len(s)
    THEN IF keepLast \/ cur # <<>> THEN Append(fields, cur) ELSE fields
    ELSE IF s[i] = SP
         THEN SplitFrom(s, i + 1, <<>>, Append(fields, cur), keepLast)
         ELSE SplitFrom(s, i + 1, Append(cur, s[i]), fields, keepLast)

\* str::split(' '): the pieces between spaces; n spaces give n + 1 pieces,
\* so a trailing space is followed by an empty last piece.
StrSplit(s) == SplitFrom(s, 1, <<>>, <<>>, TRUE)

\* BufRead::split(b' '): reads up to and including the next space until the
\* input is exhausted; nothing is yielded for the end of input, so a
\* trailing space ends the last field and is followed by no empty field.
BufSplit(s) == SplitFrom(s, 1, <<>>, <<>>, FALSE)

RECURSIVE TrimStart(_)
TrimStart(s) ==
    IF s # <<>> /\ Head(s) = SP THEN TrimStart(Tail(s)) ELSE s

RECURSIVE TrimEnd(_)
TrimEnd(s) ==
    IF s # <<>> /\ s[Len(s)] = SP THEN TrimEnd(SubSeq(s, 1, Len(s) - 1)) ELSE s

\* str::trim
Trim(s) == TrimEnd(TrimStart(s))

(***************************************************************************)
(* Results and options                                                     *)
(***************************************************************************)
Ok(v) == [ok |-> TRUE, val |-> v]
Err(e) == [ok |-> FALSE, err |-> e]
None == <<>>
Some(v) == <<v>>

(***************************************************************************)
(* Object ids                                                              *)
(***************************************************************************)
\* The all-zero object id.
ZeroOid == <<>>

RECURSIVE StripZeros(_)
StripZeros(w) ==
    IF w # <<>> /\ w[Len(w)] = ZeroHex
    THEN StripZeros(SubSeq(w, 1, Len(w) - 1))
    ELSE w

\* Parsing a word as a MaybeZeroOid: a non-empty run of hexadecimal digits,
\* padded with zeros to the fixed width of an object id.  The value is the
\* word without its trailing zeros, so the all-zero id is ZeroOid.
ParseMaybeZeroOid(w) ==
    IF w # <<>> /\ \A i \in 1..Len(w) : w[i] \in HexChunks
    THEN Ok(StripZeros(w))
    ELSE Err("oid")

\* Parsing a word as a NonZeroOid: as above, and the all-zero id is refused.
ParseNonZeroOid(w) ==
    LET r == ParseMaybeZeroOid(w)
    IN  IF r.ok /\ r.val = ZeroOid THEN Err("zero oid") ELSE r

\* Display of an object id: its digits at the fixed width, so the digits of
\* the value followed by the zeros that pad it.
FormatOid(oid) == oid \o <<ZeroHex>>

(***************************************************************************)
(* Time                                                                    *)
(***************************************************************************)
\* A SystemTime is a number of milliseconds relative to UNIX_EPOCH.
\* SystemTime::duration_since(UNIX_EPOCH) fails for a time before the epoch.
DurationSinceEpoch(now) == IF now >= 0 THEN Ok(now) ELSE Err("time")

\* Duration::as_secs_f64: whole seconds and the fraction, in milliseconds.
AsSecsF64(d) == [secs |-> d \div 1000, frac |-> d % 1000]

(***************************************************************************)
(* Events                                                                  *)
(***************************************************************************)
RewriteEvent(timestamp, event_tx_id, old_commit_oid, new_commit_oid) ==
    [type |-> "RewriteEvent", timestamp |-> timestamp,
     event_tx_id |-> event_tx_id,
     old_commit_oid |-> old_commit_oid, new_commit_oid |-> new_commit_oid]

RefUpdateEvent(timestamp, event_tx_id, ref_name, old_oid, new_oid) ==
    [type |-> "RefUpdateEvent", timestamp |-> timestamp,
     event_tx_id |-> event_tx_id, ref_name |-> ref_name,
     old_oid |-> old_oid, new_oid |-> new_oid, message |-> None]

CommitEvent(timestamp, event_tx_id, commit_oid) ==
    [type |-> "CommitEvent", timestamp |-> timestamp,
     event_tx_id |-> event_tx_id, commit_oid |-> commit_oid]

HideEvent(timestamp, event_tx_id, commit_oid) ==
    [type |-> "HideEvent", timestamp |-> timestamp,
     event_tx_id |-> event_tx_id, commit_oid |-> commit_oid]

UnhideEvent(timestamp, event_tx_id, commit_oid) ==
    [type |-> "UnhideEvent", timestamp |-> timestamp,
     event_tx_id |-> event_tx_id, commit_oid |-> commit_oid]

\* The exclusion policy for transient refs.
should_ignore_ref_updates(ref_name) == ref_name = <<OrigHead>>

(***************************************************************************)
(* parse_reference_transaction_line                                        *)
(***************************************************************************)
\* Variant: the old and the new oid change places.
parse_line_swapped_oids(line, now, event_tx_id) ==
    LET fields == BufSplit(line)
        ts == DurationSinceEpoch(now)
    IN  IF Len(fields) # 3 THEN Err("Unexpected number of fields")
        ELSE IF should_ignore_ref_updates(fields[3]) THEN Ok(None)
        ELSE IF ~ts.ok THEN Err("Processing timestamp")
        ELSE IF ~ParseMaybeZeroOid(fields[1]).ok THEN Err("old oid")
        ELSE IF ~ParseMaybeZeroOid(fields[2]).ok THEN Err("new oid")
        ELSE Ok(Some(RefUpdateEvent(AsSecsF64(ts.val), event_tx_id, fields[3],
                                    ParseMaybeZeroOid(fields[2]).val,
                                    ParseMaybeZeroOid(fields[1]).val)))

\* Variant: the exclusion policy is not consulted.
parse_line_no_exclusion(line, now, event_tx_id) ==
    LET fields == BufSplit(line)
        ts == DurationSinceEpoch(now)
    IN  IF Len(fields) # 3 THEN Err("Unexpected number of fields")
        ELSE IF ~ts.ok THEN Err("Processing timestamp")
        ELSE IF ~ParseMaybeZeroOid(fields[1]).ok THEN Err("old oid")
        ELSE IF ~ParseMaybeZeroOid(fields[2]).ok THEN Err("new oid")
        ELSE Ok(Some(RefUpdateEvent(AsSecsF64(ts.val), event_tx_id, fields[3],
                                    ParseMaybeZeroOid(fields[1]).val,
                                    ParseMaybeZeroOid(fields[2]).val)))

parse_reference_transaction_line(line, now, event_tx_id) ==
    LET fields == BufSplit(line)
        ts == DurationSinceEpoch(now)
    IN  IF Len(fields) # 3 THEN Err("Unexpected number of fields")
        ELSE IF should_ignore_ref_updates(fields[3]) THEN Ok(None)
        ELSE IF ~ts.ok THEN Err("Processing timestamp")
        ELSE IF ~ParseMaybeZeroOid(fields[1]).ok THEN Err("old oid")
        ELSE IF ~ParseMaybeZeroOid(fields[2]).ok THEN Err("new oid")
        ELSE Ok(Some(RefUpdateEvent(AsSecsF64(ts.val), event_tx_id, fields[3],
                                    ParseMaybeZeroOid(fields[1]).val,
                                    ParseMaybeZeroOid(fields[2]).val)))

(***************************************************************************)
(* The replayer's projection                                               *)
(***************************************************************************)
\* HashMap::insert.
MapInsert(m, k, v) == [x \in DOMAIN m \cup {k} |-> IF x = k THEN v ELSE m[x]]

EmptyMap == [x \in {} |-> <<>>]

EmptyProjection == [refs |-> EmptyMap, hidden |-> {}]

\* Variant: a ref keeps the position of its first RefUpdateEvent.
ApplyEventFirstWins(proj, e) ==
    IF e.type = "RefUpdateEvent"
    THEN IF should_ignore_ref_updates(e.ref_name)
            \/ e.ref_name \in DOMAIN proj.refs
         THEN proj
         ELSE [proj EXCEPT !.refs = MapInsert(proj.refs, e.ref_name, e.new_oid)]
    ELSE IF e.type = "HideEvent"
    THEN [proj EXCEPT !.hidden = proj.hidden \cup {e.commit_oid}]
    ELSE IF e.type = "UnhideEvent"
    THEN [proj EXCEPT !.hidden = proj.hidden \ {e.commit_oid}]
    ELSE proj

\* Variant: an UnhideEvent leaves the hidden set as it is.
ApplyEventUnhideIgnored(proj, e) ==
    IF e.type = "RefUpdateEvent"
    THEN IF should_ignore_ref_updates(e.ref_name) THEN proj
         ELSE [proj EXCEPT !.refs = MapInsert(proj.refs, e.ref_name, e.new_oid)]
    ELSE IF e.type = "HideEvent"
    THEN [proj EXCEPT !.hidden = proj.hidden \cup {e.commit_oid}]
    ELSE proj

\* The effect of one Event on the projection.
ApplyEvent(proj, e) ==
    IF e.type = "RefUpdateEvent"
    THEN IF should_ignore_ref_updates(e.ref_name) THEN proj
         ELSE [proj EXCEPT !.refs = MapInsert(proj.refs, e.ref_name, e.new_oid)]
    ELSE IF e.type = "HideEvent"
    THEN [proj EXCEPT !.hidden = proj.hidden \cup {e.commit_oid}]
    ELSE IF e.type = "UnhideEvent"
    THEN [proj EXCEPT !.hidden = proj.hidden \ {e.commit_oid}]
    ELSE proj

RECURSIVE ProjectionAt(_, _)
\* The left fold of the first `cursor` Events.
ProjectionAt(events, cursor) ==
    IF cursor = 0 THEN EmptyProjection
    ELSE ApplyEvent(ProjectionAt(events, cursor - 1), events[cursor])

(***************************************************************************)
(* The repository's commits                                                *)
(***************************************************************************)
\* The object store: commit M is the root, A and B are children of M, C is a
\* child of A, and D is an empty commit on top of B.  OidX names no object.
RepoCommits == {<<OidM>>, <<OidA>>, <<OidB>>, <<OidC>>, <<OidD>>}

\* Commit::get_parent_oids
RepoParents(oid) ==
    CASE oid = <<OidA>> -> {<<OidM>>}
      [] oid = <<OidB>> -> {<<OidM>>}
      [] oid = <<OidC>> -> {<<OidA>>}
      [] oid = <<OidD>> -> {<<OidB>>}
      [] OTHER -> {}

\* Commit::is_empty
RepoEmpty(oid) == oid = <<OidD>>

\* Repo::find_commit
find_commit(oid) == IF oid \in RepoCommits THEN Some(oid) ELSE None

RECURSIVE RepoAncestors(_)
\* The commits reachable from the commits S by parent links, S included.
RepoAncestors(S) ==
    LET T == S \cup UNION {RepoParents(c) : c \in S}
    IN  IF T = S THEN S ELSE RepoAncestors(T)

\* The merge-base of two commits: their common ancestor that no other common
\* ancestor descends from.
RepoMergeBase(a, b) ==
    LET common == RepoAncestors({a}) \cap RepoAncestors({b})
    IN  IF common = {} THEN None
        ELSE Some(CHOOSE c \in common : common \subseteq RepoAncestors({c}))

(***************************************************************************)
(* The merge-base cache                                                    *)
(***************************************************************************)
\* Variant: the key keeps the order of the pair.
MergeBaseKeyOrdered(a, b) == <<a, b>>

\* The key of a pair of commits: the pair without its order.
MergeBaseKey(a, b) == {a, b}

\* get(a, b): the memoised result, None on a miss.
merge_base_get(db, a, b) ==
    IF MergeBaseKey(a, b) \in DOMAIN db
    THEN Some(db[MergeBaseKey(a, b)])
    ELSE None

\* put(a, b, result): the database after the put; the last writer wins.
merge_base_put(db, a, b, result) == MapInsert(db, MergeBaseKey(a, b), result)

(***************************************************************************)
(* The commit graph                                                        *)
(***************************************************************************)
\* The commits that the first `cursor` Events mention.
ObservedCommits(events, cursor) ==
    UNION {IF events[i].type = "CommitEvent"
           THEN {events[i].commit_oid}
           ELSE IF events[i].type = "RewriteEvent"
           THEN {events[i].old_commit_oid, events[i].new_commit_oid}
                    \ {ZeroOid}
           ELSE {} : i \in 1..cursor}

\* The commits that are visible in the projection at `cursor`.
VisibleCommits(events, cursor) ==
    ObservedCommits(events, cursor) \ ProjectionAt(events, cursor).hidden

\* The oids the graph is grown from: HEAD if there is one, the main branch,
\* the branches, and the visible commits.
GraphSeeds(events, cursor, head_oid, main_branch_oid, branch_oids) ==
    (IF head_oid = None THEN {} ELSE {head_oid[1]})
        \cup {main_branch_oid} \cup branch_oids
        \cup VisibleCommits(events, cursor)

\* A graph over the commits `nodes`: every node with its parents and with
\* its children among the nodes.
GraphOver(nodes) ==
    [oid \in nodes |->
        [parents |-> RepoParents(oid),
         children |-> {c \in nodes : oid \in RepoParents(c)}]]

\* Variant: the branches are not among the oids the graph is grown from.
make_graph_without_branches(events, cursor, head_oid, main_branch_oid, branch_oids) ==
    GraphOver(RepoAncestors(
        {s \in GraphSeeds(events, cursor, head_oid, main_branch_oid, {}) :
            find_commit(s) # None}))

\* make_graph: an oid that the repository cannot resolve is skipped; from
\* the others the parent links are walked.
make_graph(events, cursor, head_oid, main_branch_oid, branch_oids) ==
    GraphOver(RepoAncestors(
        {s \in GraphSeeds(events, cursor, head_oid, main_branch_oid,
                          branch_oids) :
            find_commit(s) # None}))

\* The merge-bases that building the graph looks up: of the main branch
\* with every other resolvable oid the graph is grown from, in this order.
RepoOrder == <<<<OidM>>, <<OidA>>, <<OidB>>, <<OidC>>, <<OidD>>>>

MergeBaseLookups(events, cursor, head_oid, main_branch_oid, branch_oids) ==
    SelectSeq(RepoOrder,
        LAMBDA s : /\ s # main_branch_oid
                   /\ s \in GraphSeeds(events, cursor, head_oid,
                                       main_branch_oid, branch_oids))

\* The puts that building the graph makes: every lookup that misses is
\* computed by the repository and put.
MissedMergeBases(db, main_branch_oid, lookups) ==
    LET missed == SelectSeq(lookups,
                      LAMBDA s : merge_base_get(db, main_branch_oid, s) = None)
    IN  [i \in 1..Len(missed) |->
            <<main_branch_oid, missed[i],
              RepoMergeBase(main_branch_oid, missed[i])>>]

RECURSIVE ApplyPuts(_, _)
ApplyPuts(db, ps) ==
    IF ps = <<>> THEN db
    ELSE ApplyPuts(merge_base_put(db, ps[1][1], ps[1][2], ps[1][3]), Tail(ps))

(***************************************************************************)
(* The rewrite analyzer                                                    *)
(***************************************************************************)
\* The RewriteEvents of `oid` among the first `cursor` Events.
RewritesOf(events, cursor, oid) ==
    {i \in 1..cursor : /\ events[i].type = "RewriteEvent"
                       /\ events[i].old_commit_oid = oid}

\* Variant: of the RewriteEvents of the commit, the last one of those with
\* the highest transaction id.
find_rewrite_target_highest_tx(events, cursor, oid) ==
    LET idx == RewritesOf(events, cursor, oid)
        top == {i \in idx :
                   \A j \in idx : events[j].event_tx_id <= events[i].event_tx_id}
    IN  IF idx = {} THEN None
        ELSE Some(events[CHOOSE i \in top : \A j \in top : j <= i]
                      .new_commit_oid)

\* What the commit was rewritten to: the new oid of the most recent
\* RewriteEvent of the commit up to the cursor, None if there is none.
find_rewrite_target(events, cursor, oid) ==
    LET idx == RewritesOf(events, cursor, oid)
    IN  IF idx = {} THEN None
        ELSE Some(events[CHOOSE i \in idx : \A j \in idx : j <= i]
                      .new_commit_oid)

\* The child was itself rewritten to a commit that descends from new_oid.
IsRewrittenOnto(events, cursor, child, new_oid) ==
    LET target == find_rewrite_target(events, cursor, child)
    IN  /\ target # None
        /\ target[1] # ZeroOid
        /\ new_oid \in RepoAncestors({target[1]})

\* Variant: a rewritten commit without children in the graph is reported
\* with no children.
find_abandoned_children_childless(graph, events, cursor, oid) ==
    LET target == find_rewrite_target(events, cursor, oid)
    IN  IF target = None THEN None
        ELSE Some(<<target[1],
                    IF oid \in DOMAIN graph
                    THEN {c \in graph[oid].children :
                             ~IsRewrittenOnto(events, cursor, c, target[1])}
                    ELSE {}>>)

\* find_abandoned_children: None if the commit was never rewritten or has no
\* children in the graph; otherwise what it was rewritten to, and those of
\* its children that were not rewritten to descend from that.
find_abandoned_children(graph, events, cursor, oid) ==
    LET target == find_rewrite_target(events, cursor, oid)
    IN  IF target = None THEN None
        ELSE IF oid \notin DOMAIN graph \/ graph[oid].children = {} THEN None
        ELSE Some(<<target[1],
                    {c \in graph[oid].children :
                        ~IsRewrittenOnto(events, cursor, c, target[1])}>>)

(***************************************************************************)
(* The event batches the handlers build                                    *)
(***************************************************************************)
\* One line of post-rewrite input: "<old> <new> [<extra>...]".
ParseRewriteLine(line, timestamp, event_tx_id) ==
    LET fields == StrSplit(Trim(line))
    IN  IF Len(fields) < 2 THEN Err("Invalid rewrite line")
        ELSE IF ~ParseNonZeroOid(fields[1]).ok THEN Err("old oid")
        ELSE IF ~ParseMaybeZeroOid(fields[2]).ok THEN Err("new oid")
        ELSE Ok(RewriteEvent(timestamp, event_tx_id,
                             ParseNonZeroOid(fields[1]).val,
                             ParseMaybeZeroOid(fields[2]).val))

RECURSIVE RewriteLoop(_, _, _, _, _, _)
RewriteLoop(stdin, i, timestamp, event_tx_id, rewritten_oids, events) ==
    IF i > Len(stdin)
    THEN Ok([rewritten_oids |-> rewritten_oids, events |-> events])
    ELSE LET r == ParseRewriteLine(stdin[i], timestamp, event_tx_id)
         IN  IF ~r.ok THEN r
             ELSE RewriteLoop(stdin, i + 1, timestamp, event_tx_id,
                      MapInsert(rewritten_oids, r.val.old_commit_oid,
                                r.val.new_commit_oid),
                      Append(events, r.val))

\* Variant: every line's event gets an id of its own, counted from the
\* allocated one.
PostRewriteEventsIdPerLine(stdin, timestamp, event_tx_id) ==
    LET r == RewriteLoop(stdin, 1, timestamp, event_tx_id, EmptyMap, <<>>)
    IN  IF ~r.ok THEN r
        ELSE Ok([rewritten_oids |-> r.val.rewritten_oids,
                 events |-> [i \in 1..Len(r.val.events) |->
                     [r.val.events[i] EXCEPT
                         !.event_tx_id = event_tx_id + i - 1]]])

\* Variant: of the lines with the same old oid only the last one gives an
\* event.
PostRewriteEventsOnePerOld(stdin, timestamp, event_tx_id) ==
    LET r == RewriteLoop(stdin, 1, timestamp, event_tx_id, EmptyMap, <<>>)
    IN  IF ~r.ok THEN r
        ELSE Ok([rewritten_oids |-> r.val.rewritten_oids,
                 events |-> SelectSeq(r.val.events,
                     LAMBDA e : r.val.rewritten_oids[e.old_commit_oid]
                                    = e.new_commit_oid)])

\* The loop over stdin of hook_post_rewrite: the first line that does not
\* parse ends the handler with its error.
PostRewriteEvents(stdin, timestamp, event_tx_id) ==
    RewriteLoop(stdin, 1, timestamp, event_tx_id, EmptyMap, <<>>)

RECURSIVE RefTxLoop(_, _, _, _)
RefTxLoop(stdin, i, now, event_tx_id) ==
    IF i > Len(stdin) THEN <<>>
    ELSE LET r == parse_reference_transaction_line(stdin[i], now, event_tx_id)
         IN  (IF r.ok THEN r.val ELSE None)
                 \o RefTxLoop(stdin, i + 1, now, event_tx_id)

\* Variant: a line that does not parse aborts the batch.
RefTxEventsAbortOnError(stdin, now, event_tx_id) ==
    IF \E i \in 1..Len(stdin) :
           ~parse_reference_transaction_line(stdin[i], now, event_tx_id).ok
    THEN <<>>
    ELSE RefTxLoop(stdin, 1, now, event_tx_id)

\* The filter_map over stdin of hook_reference_transaction: a line that does
\* not parse is logged and yields nothing, like an excluded line.
RefTxEvents(stdin, now, event_tx_id) == RefTxLoop(stdin, 1, now, event_tx_id)

\* Variant: the event carries the id before the one allocated.
PostCheckoutEventsStaleId(a, event_tx_id) ==
    LET old == ParseMaybeZeroOid(a.previous_head_oid)
        new == ParseMaybeZeroOid(a.current_head_oid)
    IN  IF ~old.ok THEN Err("previous_head_oid")
        ELSE IF ~new.ok THEN Err("current_head_oid")
        ELSE Ok(<<RefUpdateEvent(AsSecsF64(DurationSinceEpoch(a.now).val),
                                 event_tx_id - 1, <<HeadRef>>,
                                 old.val, new.val)>>)

\* The one-event batch of hook_post_checkout.
PostCheckoutEvents(a, event_tx_id) ==
    LET old == ParseMaybeZeroOid(a.previous_head_oid)
        new == ParseMaybeZeroOid(a.current_head_oid)
    IN  IF ~old.ok THEN Err("previous_head_oid")
        ELSE IF ~new.ok THEN Err("current_head_oid")
        ELSE Ok(<<RefUpdateEvent(AsSecsF64(DurationSinceEpoch(a.now).val),
                                 event_tx_id, <<HeadRef>>, old.val, new.val)>>)

\* The one-event batch of hook_post_commit.
PostCommitEvents(a, event_tx_id) ==
    <<CommitEvent([secs |-> a.commit_time, frac |-> 0], event_tx_id,
                  a.head_oid[1])>>

(***************************************************************************)
(* State                                                                   *)
(***************************************************************************)
Procs == 1..NumProcs

VARIABLES
    log,       \* the event log: the Events in append order
    txs,       \* the transaction table: txs[id] is the record of id
    pc,        \* per process: "idle", "begun" (has its transaction id),
               \* "appended" (hook_post_rewrite before its warning), "done"
    args,      \* per process: the arguments, stdin and repository it sees
    txid,      \* per process: Some(event_tx_id), None before it is allocated
    ret,       \* per process: what the handler returned, "-" before that
    sent,      \* per process: the batch handed to add_events
    added,     \* per process: "-", or how its add_events call ended
    appended,  \* history: for each log entry, the process that appended it
               \* and the newest transaction id at that moment
    pLine, pNow, pOut,  \* SpecParse: a line, a time, and the parser's result
    repo_head,       \* the repository's HEAD: Some(oid), or None
    rewritten_list,  \* the lines of the rebase's rewritten-list file
    post,            \* per process: what hook_post_rewrite holds and did
                     \* after it parsed its input
    merge_base_db,   \* the merge-base cache: key |-> memoised result
    puts             \* history: the puts to the merge-base cache, in order

vars == <<log, txs, pc, args, txid, ret, sent, added, appended,
          pLine, pNow, pOut,
          repo_head, rewritten_list, post, merge_base_db, puts>>

hookVars == <<log, txs, pc, args, txid, ret, sent, added, appended>>
parseVars == <<pLine, pNow, pOut>>
repoVars == <<repo_head, rewritten_list>>
cacheVars == <<merge_base_db, puts>>
warnVars == <<repoVars, post, cacheVars>>

\* hook_post_rewrite before it has parsed its input.
NoLocals ==
    [rewritten_oids |-> None, is_spurious_event |-> None,
     processing |-> None, moved |-> None, replayer |-> None,
     graph |-> None, abandoned |-> None, warned |-> FALSE]

NoArgs == [hook |-> "-"]
NotParsed == Err("not parsed")

IsErr(r) == r \notin {"-", "Ok"}

Init ==
    /\ log = <<>>
    /\ txs = <<>>
    /\ pc = [p \in Procs |-> "idle"]
    /\ args = [p \in Procs |-> NoArgs]
    /\ txid = [p \in Procs |-> None]
    /\ ret = [p \in Procs |-> "-"]
    /\ sent = [p \in Procs |-> <<>>]
    /\ added = [p \in Procs |-> "-"]
    /\ appended = <<>>
    /\ pLine = <<>>
    /\ pNow = 0
    /\ pOut = NotParsed
    /\ repo_head = Some(<<OidM>>)
    /\ rewritten_list = <<>>
    /\ post = [p \in Procs |-> NoLocals]
    /\ merge_base_db = EmptyMap
    /\ puts = <<>>

(***************************************************************************)
(* The event log database                                                  *)
(***************************************************************************)
\* EventLogDb::make_transaction_id: the next id, recorded with its time and
\* command name; or a storage failure, which records nothing.
make_transaction_id(p, now, message, io) ==
    IF io
    THEN /\ txs' = Append(txs, [time |-> now, message |-> message, by |-> p])
         /\ txid' = [txid EXCEPT ![p] = Some(Len(txs) + 1)]
    ELSE UNCHANGED <<txs, txid>>

\* EventLogDb::add_events: the whole batch is appended in one database
\* transaction; or a storage failure, which appends nothing.
add_events(p, events, io) ==
    /\ sent' = [sent EXCEPT ![p] = events]
    /\ added' = [added EXCEPT ![p] = IF io THEN "ok" ELSE "failed"]
    /\ IF io
       THEN /\ log' = log \o events
            /\ appended' = appended \o
                   [i \in 1..Len(events) |-> [by |-> p, latest |-> Len(txs)]]
       ELSE UNCHANGED <<log, appended>>

\* The handler returns r to Git.
Return(p, r) ==
    /\ pc' = [pc EXCEPT ![p] = "done"]
    /\ ret' = [ret EXCEPT ![p] = r]

\* The handler goes on, holding its transaction id.
GoOn(p) ==
    /\ pc' = [pc EXCEPT ![p] = "begun"]
    /\ UNCHANGED ret

Invoke(p, a) ==
    /\ pc[p] = "idle"
    /\ args' = [args EXCEPT ![p] = a]

(***************************************************************************)
(* hook_post_rewrite                                                       *)
(***************************************************************************)
\* After add_events the handler may call move_branches and warn_abandoned.
\* Neither writes to the event log from this process: move_branches runs Git
\* commands, whose reference-transaction hooks are processes of their own,
\* and warn_abandoned reads the log again, builds the graph and prints.
\* warn_abandoned is a step of its own, taken when the warning is switched
\* on and the event is not spurious.
HookPostRewriteStart(p, a) ==
    /\ Invoke(p, a)
    /\ a.hook = "post-rewrite"
    /\ \E io \in BOOLEAN :
          /\ make_transaction_id(p, a.now, "hook-post-rewrite", io)
          /\ IF io THEN GoOn(p) ELSE Return(p, "Err(make_transaction_id)")
    /\ UNCHANGED <<log, sent, added, appended, parseVars, warnVars>>

\* Variant: add_events is called once per event instead of once per batch.
HookPostRewriteFinishPerEvent(p) ==
    /\ pc[p] = "begun"
    /\ args[p].hook = "post-rewrite"
    /\ LET timestamp == AsSecsF64(DurationSinceEpoch(args[p].now).val)
           parsed == PostRewriteEvents(args[p].stdin, timestamp, txid[p][1])
           n == Cardinality({i \in 1..Len(appended) : appended[i].by = p})
       IN  IF ~parsed.ok
           THEN /\ Return(p, "Err(parse)")
                /\ UNCHANGED <<log, sent, added, appended>>
           ELSE IF n + 1 < Len(parsed.val.events)
           THEN /\ log' = Append(log, parsed.val.events[n + 1])
                /\ appended' = Append(appended, [by |-> p, latest |-> Len(txs)])
                /\ UNCHANGED <<pc, ret, sent, added>>
           ELSE /\ log' = log \o SubSeq(parsed.val.events, n + 1,
                                        Len(parsed.val.events))
                /\ appended' = appended \o
                       [i \in 1..(Len(parsed.val.events) - n) |->
                           [by |-> p, latest |-> Len(txs)]]
                /\ sent' = [sent EXCEPT ![p] = parsed.val.events]
                /\ added' = [added EXCEPT ![p] = "ok"]
                /\ Return(p, "Ok")
    /\ UNCHANGED <<txs, args, txid, parseVars, warnVars>>

\* Variant: a spurious event is recognised before the append, and nothing
\* is appended for it.
HookPostRewriteFinishSkipSpurious(p) ==
    /\ pc[p] = "begun"
    /\ args[p].hook = "post-rewrite"
    /\ LET a == args[p]
           timestamp == AsSecsF64(DurationSinceEpoch(a.now).val)
           parsed == PostRewriteEvents(a.stdin, timestamp, txid[p][1])
           is_spurious_event ==
               a.rewrite_type = "amend" /\ a.is_rebase_underway
           held == [post[p] EXCEPT
                       !.rewritten_oids = Some(parsed.val.rewritten_oids),
                       !.is_spurious_event = Some(is_spurious_event),
                       !.processing = IF is_spurious_event THEN None
                                      ELSE Some(Len(parsed.val.events))]
       IN  IF ~parsed.ok
           THEN /\ Return(p, "Err(parse)")
                /\ UNCHANGED <<log, sent, added, appended, post>>
           ELSE IF is_spurious_event
           THEN /\ post' = [post EXCEPT ![p] = held]
                /\ Return(p, "Ok")
                /\ UNCHANGED <<log, sent, added, appended>>
           ELSE \E io \in BOOLEAN :
                   /\ add_events(p, parsed.val.events, io)
                   /\ IF ~io
                      THEN /\ post' = [post EXCEPT ![p] = held]
                           /\ Return(p, "Err(add_events)")
                      ELSE /\ post' = [post EXCEPT ![p] = [held EXCEPT
                                  !.moved = IF a.do_extra_post_rewrite
                                            THEN Some(parsed.val.rewritten_oids)
                                            ELSE None]]
                           /\ IF a.restack_warn_abandoned
                              THEN /\ pc' = [pc EXCEPT ![p] = "appended"]
                                   /\ UNCHANGED ret
                              ELSE Return(p, "Ok")
    /\ UNCHANGED <<txs, args, txid, parseVars, repoVars, cacheVars>>

HookPostRewriteFinish(p) ==
    /\ pc[p] = "begun"
    /\ args[p].hook = "post-rewrite"
    /\ LET a == args[p]
           timestamp == AsSecsF64(DurationSinceEpoch(a.now).val)
           parsed == PostRewriteEvents(a.stdin, timestamp, txid[p][1])
           is_spurious_event ==
               a.rewrite_type = "amend" /\ a.is_rebase_underway
           held == [post[p] EXCEPT
                       !.rewritten_oids = Some(parsed.val.rewritten_oids),
                       !.is_spurious_event = Some(is_spurious_event),
                       !.processing = IF is_spurious_event THEN None
                                      ELSE Some(Len(parsed.val.events))]
       IN  IF ~parsed.ok
           THEN /\ Return(p, "Err(parse)")
                /\ UNCHANGED <<log, sent, added, appended, post>>
           ELSE \E io \in BOOLEAN :
                   /\ add_events(p, parsed.val.events, io)
                   /\ IF ~io
                      THEN /\ post' = [post EXCEPT ![p] = held]
                           /\ Return(p, "Err(add_events)")
                      ELSE /\ post' = [post EXCEPT ![p] = [held EXCEPT
                                  !.moved = IF a.do_extra_post_rewrite
                                            THEN Some(parsed.val.rewritten_oids)
                                            ELSE None]]
                           /\ IF a.restack_warn_abandoned /\ ~is_spurious_event
                              THEN /\ pc' = [pc EXCEPT ![p] = "appended"]
                                   /\ UNCHANGED ret
                              ELSE Return(p, "Ok")
    /\ UNCHANGED <<txs, args, txid, parseVars, repoVars, cacheVars>>

\* Variant: the replayer was built before the handler's add_events, so it
\* holds the log as it was up to the handler's own events.
ReplayerBuiltBeforeAppend(p) ==
    LET own == {i \in 1..Len(log) : appended[i].by = p}
    IN  IF own = {} THEN log
        ELSE SubSeq(log, 1, (CHOOSE i \in own : \A j \in own : i <= j) - 1)

\* EventReplayer::from_event_log_db, called in warn_abandoned: the replayer
\* holds the Events that are in the database at this moment.
from_event_log_db(p) == log

\* EventReplayer::make_default_cursor: the cursor after the last Event.
make_default_cursor(event_replayer) == Len(event_replayer)

\* Variant: the branches at every rewritten commit are counted.
warn_abandoned_every_branch(event_replayer, head_oid, main_branch_oid, branch_oid_to_names, old_commit_oids) ==
    LET event_cursor == make_default_cursor(event_replayer)
        graph == make_graph(event_replayer, event_cursor, head_oid,
                            main_branch_oid, DOMAIN branch_oid_to_names)
        result(o) == find_abandoned_children(graph, event_replayer,
                                             event_cursor, o)
        found == {o \in old_commit_oids : result(o) # None}
        children == UNION {result(o)[1][2] : o \in found}
        branches == UNION {branch_oid_to_names[o] :
                              o \in old_commit_oids
                                        \cap DOMAIN branch_oid_to_names}
    IN  [graph |-> graph, children |-> children, branches |-> branches,
         warned |-> children # {} \/ branches # {}]

\* warn_abandoned, given the replayer it built: the graph, the abandoned
\* children and branches it collects, and whether it prints the warning.
warn_abandoned(event_replayer, head_oid, main_branch_oid, branch_oid_to_names, old_commit_oids) ==
    LET event_cursor == make_default_cursor(event_replayer)
        graph == make_graph(event_replayer, event_cursor, head_oid,
                            main_branch_oid, DOMAIN branch_oid_to_names)
        result(o) == find_abandoned_children(graph, event_replayer,
                                             event_cursor, o)
        found == {o \in old_commit_oids : result(o) # None}
        children == UNION {result(o)[1][2] : o \in found}
        branches == UNION {branch_oid_to_names[o] :
                              o \in found \cap DOMAIN branch_oid_to_names}
    IN  [graph |-> graph, children |-> children, branches |-> branches,
         warned |-> children # {} \/ branches # {}]

\* The rest of hook_post_rewrite: warn_abandoned reads the database again,
\* after the handler's add_events and after whatever other processes have
\* appended since.
HookPostRewriteWarn(p) ==
    /\ pc[p] = "appended"
    /\ LET a == args[p]
           event_replayer == from_event_log_db(p)
           w == warn_abandoned(event_replayer, repo_head, a.main_branch_oid,
                               a.branch_oid_to_names,
                               DOMAIN post[p].rewritten_oids[1])
           ps == MissedMergeBases(merge_base_db, a.main_branch_oid,
                     MergeBaseLookups(event_replayer,
                         make_default_cursor(event_replayer), repo_head,
                         a.main_branch_oid, DOMAIN a.branch_oid_to_names))
       IN  /\ post' = [post EXCEPT ![p] = [@ EXCEPT
                  !.replayer = Some(event_replayer),
                  !.graph = Some(w.graph),
                  !.abandoned =
                      Some([children |-> w.children, branches |-> w.branches]),
                  !.warned = w.warned]]
           /\ merge_base_db' = ApplyPuts(merge_base_db, ps)
           /\ puts' = puts \o ps
    /\ Return(p, "Ok")
    /\ UNCHANGED <<log, txs, args, txid, sent, added, appended, parseVars,
                   repoVars>>

(***************************************************************************)
(* The rebase that precedes hook_post_rewrite                              *)
(***************************************************************************)
\* One line of the rewritten-list file.
RewrittenLine(old_oid, new_oid) ==
    FormatOid(old_oid) \o <<SP>> \o FormatOid(new_oid)

\* Git applies the commit old_oid on top of HEAD, which gives the commit
\* new_oid, and records the rewrite in the rewritten-list file.
GitRebasePick(old_oid, new_oid) ==
    /\ repo_head # None
    /\ RepoParents(new_oid) = {repo_head[1]}
    /\ \A i \in 1..Len(rewritten_list) :
           rewritten_list[i] # RewrittenLine(old_oid, new_oid)
    /\ repo_head' = Some(new_oid)
    /\ rewritten_list' = Append(rewritten_list, RewrittenLine(old_oid, new_oid))
    /\ UNCHANGED <<hookVars, parseVars, post, cacheVars>>

\* hook_drop_commit_if_empty, run by the rebase after a pick: an empty HEAD
\* commit with one parent is dropped, and two lines are added to the file.
HookDropCommitIfEmpty(old_commit_oid) ==
    /\ LET old == ParseNonZeroOid(old_commit_oid)
           head_commit == IF repo_head = None THEN None
                          ELSE find_commit(repo_head[1])
       IN  IF \/ ~old.ok
              \/ head_commit = None
              \/ ~RepoEmpty(head_commit[1])
              \/ Cardinality(RepoParents(head_commit[1])) # 1
           THEN UNCHANGED repoVars
           ELSE /\ repo_head' =
                       Some(CHOOSE q \in RepoParents(head_commit[1]) : TRUE)
                /\ rewritten_list' = rewritten_list \o
                       <<RewrittenLine(old.val, ZeroOid),
                         RewrittenLine(head_commit[1], ZeroOid)>>
    /\ UNCHANGED <<hookVars, parseVars, post, cacheVars>>

(***************************************************************************)
(* Other clients of the databases                                          *)
(***************************************************************************)
\* Another command appends one Event to the event log.
AppendEvent(e) ==
    /\ log' = Append(log, e)
    /\ appended' = Append(appended, [by |-> 0, latest |-> Len(txs)])
    /\ UNCHANGED <<txs, pc, args, txid, ret, sent, added, parseVars, warnVars>>

\* A process puts a merge-base into the cache.
MergeBasePut(a, b, result) ==
    /\ merge_base_db' = merge_base_put(merge_base_db, a, b, result)
    /\ puts' = Append(puts, <<a, b, result>>)
    /\ UNCHANGED <<hookVars, parseVars, repoVars, post>>

(***************************************************************************)
(* hook_post_checkout                                                      *)
(***************************************************************************)
HookPostCheckoutStart(p, a) ==
    /\ Invoke(p, a)
    /\ a.hook = "post-checkout"
    /\ IF a.is_branch_checkout = 0
       THEN /\ Return(p, "Ok")
            /\ UNCHANGED <<txs, txid>>
       ELSE \E io \in BOOLEAN :
               /\ make_transaction_id(p, a.now, "hook-post-checkout", io)
               /\ IF io THEN GoOn(p) ELSE Return(p, "Err(make_transaction_id)")
    /\ UNCHANGED <<log, sent, added, appended, parseVars, warnVars>>

\* Variant: the handler stores its batch as the whole log.
HookPostCheckoutFinishOverwrite(p) ==
    /\ pc[p] = "begun"
    /\ args[p].hook = "post-checkout"
    /\ LET parsed == PostCheckoutEvents(args[p], txid[p][1])
       IN  IF ~parsed.ok
           THEN /\ Return(p, "Err(parse)")
                /\ UNCHANGED <<log, sent, added, appended>>
           ELSE /\ log' = parsed.val
                /\ appended' = <<[by |-> p, latest |-> Len(txs)]>>
                /\ sent' = [sent EXCEPT ![p] = parsed.val]
                /\ added' = [added EXCEPT ![p] = "ok"]
                /\ Return(p, "Ok")
    /\ UNCHANGED <<txs, args, txid, parseVars, warnVars>>

HookPostCheckoutFinish(p) ==
    /\ pc[p] = "begun"
    /\ args[p].hook = "post-checkout"
    /\ LET parsed == PostCheckoutEvents(args[p], txid[p][1])
       IN  IF ~parsed.ok
           THEN /\ Return(p, "Err(parse)")
                /\ UNCHANGED <<log, sent, added, appended>>
           ELSE \E io \in BOOLEAN :
                   /\ add_events(p, parsed.val, io)
                   /\ Return(p, IF io THEN "Ok" ELSE "Err(add_events)")
    /\ UNCHANGED <<txs, args, txid, parseVars, warnVars>>

(***************************************************************************)
(* hook_post_commit                                                        *)
(***************************************************************************)
\* The handler reads HEAD and looks the commit up before it allocates its
\* transaction id; mark_commit_reachable, in between, creates a ref and so
\* writes to the log only through a reference-transaction hook process.
\* Variant: the transaction id is allocated first, as the other handlers do.
HookPostCommitStartAllocFirst(p, a) ==
    /\ Invoke(p, a)
    /\ a.hook = "post-commit"
    /\ \E io \in BOOLEAN :
          /\ make_transaction_id(p, a.now, "hook-post-commit", io)
          /\ IF ~io THEN Return(p, "Err(make_transaction_id)")
             ELSE IF a.head_oid = None THEN Return(p, "Ok")
             ELSE IF ~a.commit_found THEN Return(p, "Err(BUG)")
             ELSE GoOn(p)
    /\ UNCHANGED <<log, sent, added, appended, parseVars, warnVars>>

HookPostCommitStart(p, a) ==
    /\ Invoke(p, a)
    /\ a.hook = "post-commit"
    /\ IF a.head_oid = None
       THEN /\ Return(p, "Ok")
            /\ UNCHANGED <<txs, txid>>
       ELSE IF ~a.commit_found
       THEN /\ Return(p, "Err(BUG)")
            /\ UNCHANGED <<txs, txid>>
       ELSE \E io \in BOOLEAN :
               /\ make_transaction_id(p, a.now, "hook-post-commit", io)
               /\ IF io THEN GoOn(p) ELSE Return(p, "Err(make_transaction_id)")
    /\ UNCHANGED <<log, sent, added, appended, parseVars, warnVars>>

\* Variant: the result of add_events is dropped.
HookPostCommitFinishSwallow(p) ==
    /\ pc[p] = "begun"
    /\ args[p].hook = "post-commit"
    /\ \E io \in BOOLEAN :
          /\ add_events(p, PostCommitEvents(args[p], txid[p][1]), io)
          /\ Return(p, "Ok")
    /\ UNCHANGED <<txs, args, txid, parseVars, warnVars>>

HookPostCommitFinish(p) ==
    /\ pc[p] = "begun"
    /\ args[p].hook = "post-commit"
    /\ \E io \in BOOLEAN :
          /\ add_events(p, PostCommitEvents(args[p], txid[p][1]), io)
          /\ Return(p, IF io THEN "Ok" ELSE "Err(add_events)")
    /\ UNCHANGED <<txs, args, txid, parseVars, warnVars>>

(***************************************************************************)
(* hook_reference_transaction                                              *)
(***************************************************************************)
HookReferenceTransactionStart(p, a) ==
    /\ Invoke(p, a)
    /\ a.hook = "reference-transaction"
    /\ IF a.transaction_state # "committed"
       THEN /\ Return(p, "Ok")
            /\ UNCHANGED <<txs, txid>>
       ELSE \E io \in BOOLEAN :
               /\ make_transaction_id(p, a.now, "reference-transaction", io)
               /\ IF io THEN GoOn(p) ELSE Return(p, "Err(make_transaction_id)")
    /\ UNCHANGED <<log, sent, added, appended, parseVars, warnVars>>

\* Variant: add_events is called with whatever the lines gave, also with
\* nothing.
HookReferenceTransactionFinishAlwaysAdds(p) ==
    /\ pc[p] = "begun"
    /\ args[p].hook = "reference-transaction"
    /\ LET events == RefTxEvents(args[p].stdin, args[p].now, txid[p][1])
       IN  \E io \in BOOLEAN :
               /\ add_events(p, events, io)
               /\ Return(p, IF io THEN "Ok" ELSE "Err(add_events)")
    /\ UNCHANGED <<txs, args, txid, parseVars, warnVars>>

HookReferenceTransactionFinish(p) ==
    /\ pc[p] = "begun"
    /\ args[p].hook = "reference-transaction"
    /\ LET events == RefTxEvents(args[p].stdin, args[p].now, txid[p][1])
       IN  IF events = <<>>
           THEN /\ Return(p, "Ok")
                /\ UNCHANGED <<log, sent, added, appended>>
           ELSE \E io \in BOOLEAN :
                   /\ add_events(p, events, io)
                   /\ Return(p, IF io THEN "Ok" ELSE "Err(add_events)")
    /\ UNCHANGED <<txs, args, txid, parseVars, warnVars>>

(***************************************************************************)
(* Inputs                                                                  *)
(***************************************************************************)
SeqsUpTo(S, n) == UNION {[1..k -> S] : k \in 0..n}

\* The time SystemTime::now() returns to a handler.
HookNows == {1500}
\* Commit::get_time().seconds() of the HEAD commit.
CommitTimes == {7}

\* What hook_post_rewrite finds around it: its rewrite_type argument,
\* Repo::is_rebase_underway, whether the branchless_do_extra_post_rewrite
\* file exists, get_restack_warn_abandoned, Repo::get_main_branch_oid and
\* Repo::get_branch_oid_to_names.
RewriteEnvs(types, underway, extra, warn, branch_maps) ==
    [rewrite_type : types, is_rebase_underway : underway,
     do_extra_post_rewrite : extra, restack_warn_abandoned : warn,
     main_branch_oid : {<<OidM>>}, branch_oid_to_names : branch_maps]

RewriteArgs(stdins, envs) ==
    {[hook |-> "post-rewrite", now |-> n, stdin |-> s,
      rewrite_type |-> e.rewrite_type,
      is_rebase_underway |-> e.is_rebase_underway,
      do_extra_post_rewrite |-> e.do_extra_post_rewrite,
      restack_warn_abandoned |-> e.restack_warn_abandoned,
      main_branch_oid |-> e.main_branch_oid,
      branch_oid_to_names |-> e.branch_oid_to_names] :
        n \in HookNows, s \in stdins, e \in envs}

\* A rebase that is over, with no extra work asked for and the warning
\* about abandoned commits switched off.
QuietEnvs == RewriteEnvs({"rebase"}, {FALSE}, {FALSE}, {FALSE}, {EmptyMap})

\* Branches: none; one at C; one at A and one at C; two at A; one at an oid
\* that names no object and one at C.
BranchMaps ==
    {EmptyMap,
     MapInsert(EmptyMap, <<OidC>>, {"b1"}),
     MapInsert(MapInsert(EmptyMap, <<OidA>>, {"b1"}), <<OidC>>, {"b2"}),
     MapInsert(EmptyMap, <<OidA>>, {"b1", "b2"}),
     MapInsert(MapInsert(EmptyMap, <<OidX>>, {"b1"}), <<OidC>>, {"b2"})}

WarnEnvs == RewriteEnvs({"amend", "rebase"}, BOOLEAN, BOOLEAN, BOOLEAN,
                        BranchMaps)

\* The picks of the rebase: A becomes B, C becomes D.
PickPairs == {<<<<OidA>>, <<OidB>>>>, <<<<OidC>>, <<OidD>>>>}
\* The argument of hook_drop_commit_if_empty.
DropArgs == {<<OidC>>, <<ZeroHex>>}

CheckoutArgs(words, flags) ==
    [hook : {"post-checkout"}, now : HookNows, previous_head_oid : words,
     current_head_oid : words, is_branch_checkout : flags]

\* head_oid is Repo::get_head_info().oid and commit_found tells whether
\* Repo::find_commit finds that commit.
CommitArgs ==
    [hook : {"post-commit"}, now : HookNows, head_oid : {None, Some(<<OidA>>)},
     commit_found : BOOLEAN, commit_time : CommitTimes]

RefTxArgs(states, stdins) ==
    [hook : {"reference-transaction"}, now : HookNows,
     transaction_state : states, stdin : stdins]

\* Lines of post-rewrite input: two rewrites, one of them with surrounding
\* spaces and an extra field; a line with one field, a line whose new oid
\* does not parse, and a line whose old oid is zero.
RewriteGood1 == <<OidA, SP, OidB>>
RewriteGood2 == <<SP, OidB, SP, ZeroHex, SP, RefBranch, SP>>
\* The line that drops A.
RewriteDropped == <<OidA, SP, ZeroHex>>
RewriteLines ==
    {RewriteGood1, RewriteGood2, <<OidA>>, <<OidA, SP, RefBranch>>,
     <<ZeroHex, SP, OidA>>}

\* Lines of reference-transaction input: two updates; two lines that name an
\* excluded ref, one of them with an oid that does not parse; a line with
\* two fields and a line whose new oid does not parse.
RefTxGood1 == <<OidA, SP, OidB, SP, RefBranch>>
RefTxGood2 == <<ZeroHex, SP, OidA, SP, HeadRef>>
RefTxExcluded == {<<OidA, SP, OidB, SP, OrigHead>>,
                  <<RefBranch, SP, OidB, SP, OrigHead>>}
RefTxMalformed == {<<OidA, SP, OidB>>, <<OidA, SP, RefBranch, SP, RefBranch>>}
RefTxLines == {RefTxGood1, RefTxGood2} \cup RefTxExcluded \cup RefTxMalformed

\* Spec: a few invocations of every kind, to run concurrently.
ConcRewriteArgs ==
    RewriteArgs({<<RewriteGood1, RewriteGood2>>, <<RewriteGood1, <<OidA>>>>},
                QuietEnvs)
ConcCheckoutArgs == CheckoutArgs({<<OidA>>, <<RefBranch>>}, {0, 1})
ConcCommitArgs == CommitArgs
ConcRefTxArgs ==
    RefTxArgs({"committed"},
              {<<RefTxGood1, RefTxGood2>>,
               <<RefTxGood2, <<OidA, SP, OidB, SP, OrigHead>>>>,
               <<<<RefBranch, SP, OidB, SP, OrigHead>>>>})
        \cup RefTxArgs({"prepared"}, {<<RefTxGood1>>})

\* SpecRace: rewrites of A, alone and in batches that rewrite it twice or
\* rewrite B as well, for hook_post_rewrite processes that run concurrently.
RaceRewriteArgs ==
    RewriteArgs({<<RewriteGood1, RewriteGood2>>,
                 <<RewriteGood1, RewriteDropped>>, <<RewriteDropped>>},
                QuietEnvs)

\* SpecOne: every batch of up to MaxLines lines, for one invocation.
OneRewriteArgs == RewriteArgs(SeqsUpTo(RewriteLines, MaxLines), QuietEnvs)
OneCheckoutArgs ==
    CheckoutArgs({<<OidA>>, <<ZeroHex>>, <<RefBranch>>, <<>>}, {0, 1})
OneCommitArgs == CommitArgs
OneRefTxArgs ==
    RefTxArgs({"prepared", "committed", "aborted"},
              SeqsUpTo(RefTxLines, MaxLines))

\* SpecParse: every line of up to MaxLineLen chunks, at three times.
ParseChunks == {SP, OidA, ZeroHex, RefBranch, OrigHead}
ParseLines == SeqsUpTo(ParseChunks, MaxLineLen)
ParseNows == {-1, 0, 1500}
\* make_dummy_transaction_id(789)
DummyTxId == 789

\* SpecReplay: the Events other commands append.  A commit A is made and the
\* branch is created at it in transaction 1; A is rewritten to B and the
\* branch follows in transaction 2; HEAD moves; A is hidden and unhidden.
ReplayEvents ==
    LET t == AsSecsF64(1500)
    IN  {CommitEvent(t, 1, <<OidA>>),
         RefUpdateEvent(t, 1, <<RefBranch>>, ZeroOid, <<OidA>>),
         RewriteEvent(t, 2, <<OidA>>, <<OidB>>),
         RefUpdateEvent(t, 2, <<RefBranch>>, <<OidA>>, <<OidB>>),
         RefUpdateEvent(t, 2, <<HeadRef>>, ZeroOid, <<OidB>>),
         HideEvent(t, 3, <<OidA>>),
         UnhideEvent(t, 3, <<OidA>>)}

\* SpecCache: the commits and the results of the puts.
CacheOids == {<<OidA>>, <<OidB>>}
CacheResults == {None, Some(<<OidM>>)}

(***************************************************************************)
(* Specifications                                                          *)
(***************************************************************************)
\* Hook processes running concurrently, each slot invoked once.
Next ==
    \E p \in Procs :
        \/ \E a \in ConcRewriteArgs : HookPostRewriteStart(p, a)
        \/ HookPostRewriteFinish(p)
        \/ \E a \in ConcCheckoutArgs : HookPostCheckoutStart(p, a)
        \/ HookPostCheckoutFinish(p)
        \/ \E a \in ConcCommitArgs : HookPostCommitStart(p, a)
        \/ HookPostCommitFinish(p)
        \/ \E a \in ConcRefTxArgs : HookReferenceTransactionStart(p, a)
        \/ HookReferenceTransactionFinish(p)

Spec == Init /\ [][Next]_vars

\* hook_post_rewrite processes running concurrently.
NextRace ==
    \E p \in Procs :
        \/ \E a \in RaceRewriteArgs : HookPostRewriteStart(p, a)
        \/ HookPostRewriteFinish(p)

SpecRace == Init /\ [][NextRace]_vars

\* One hook invocation, on every input batch.
NoneInvoked == \A q \in Procs : pc[q] = "idle"

NextOne ==
    \E p \in Procs :
        \/ NoneInvoked /\ \E a \in OneRewriteArgs : HookPostRewriteStart(p, a)
        \/ HookPostRewriteFinish(p)
        \/ NoneInvoked /\ \E a \in OneCheckoutArgs : HookPostCheckoutStart(p, a)
        \/ HookPostCheckoutFinish(p)
        \/ NoneInvoked /\ \E a \in OneCommitArgs : HookPostCommitStart(p, a)
        \/ HookPostCommitFinish(p)
        \/ NoneInvoked
              /\ \E a \in OneRefTxArgs : HookReferenceTransactionStart(p, a)
        \/ HookReferenceTransactionFinish(p)

SpecOne == Init /\ [][NextOne]_vars

\* A rebase, then hook_post_rewrite on the rewritten-list it leaves.
NextWarn ==
    \/ NoneInvoked /\ \E pick \in PickPairs : GitRebasePick(pick[1], pick[2])
    \/ NoneInvoked /\ \E w \in DropArgs : HookDropCommitIfEmpty(w)
    \/ \E p \in Procs :
          \/ NoneInvoked
                /\ \E a \in RewriteArgs({rewritten_list}, WarnEnvs) :
                       HookPostRewriteStart(p, a)
          \/ HookPostRewriteFinish(p)
          \/ HookPostRewriteWarn(p)

SpecWarn == Init /\ [][NextWarn]_vars

\* Other commands appending to the event log.
NextReplay == \E e \in ReplayEvents : Len(log) < MaxEvents /\ AppendEvent(e)

SpecReplay == Init /\ [][NextReplay]_vars

\* Processes putting into the merge-base cache.
NextCache ==
    \E a \in CacheOids, b \in CacheOids, result \in CacheResults :
        Len(puts) < MaxPuts /\ MergeBasePut(a, b, result)

SpecCache == Init /\ [][NextCache]_vars

\* The line parser applied to one line.
InitParse ==
    /\ log = <<>>
    /\ txs = <<>>
    /\ pc = [p \in Procs |-> "idle"]
    /\ args = [p \in Procs |-> NoArgs]
    /\ txid = [p \in Procs |-> None]
    /\ ret = [p \in Procs |-> "-"]
    /\ sent = [p \in Procs |-> <<>>]
    /\ added = [p \in Procs |-> "-"]
    /\ appended = <<>>
    /\ pLine \in ParseLines
    /\ pNow \in ParseNows
    /\ pOut = NotParsed
    /\ repo_head = Some(<<OidM>>)
    /\ rewritten_list = <<>>
    /\ post = [p \in Procs |-> NoLocals]
    /\ merge_base_db = EmptyMap
    /\ puts = <<>>

ParseLine ==
    /\ pOut = NotParsed
    /\ pOut' = parse_reference_transaction_line(pLine, pNow, DummyTxId)
    /\ UNCHANGED <<pLine, pNow, hookVars, warnVars>>

NextParse == ParseLine

SpecParse == InitParse /\ [][NextParse]_vars

(***************************************************************************)
(* History helpers                                                         *)
(***************************************************************************)
\* The positions of the log that process p appended.
PositionsOf(p) == {i \in 1..Len(appended) : appended[i].by = p}

\* The transaction ids that process p allocated.
AllocatedBy(p) == {t \in 1..Len(txs) : txs[t].by = p}

RECURSIVE LogOfFrom(_, _)
LogOfFrom(p, i) ==
    IF i > Len(log) THEN <<>>
    ELSE (IF appended[i].by = p THEN <<log[i]>> ELSE <<>>) \o LogOfFrom(p, i + 1)

\* The events process p appended, in log order.
LogOf(p) == LogOfFrom(p, 1)

SetMax(S) == CHOOSE x \in S : \A y \in S : y <= x

(***************************************************************************)
(* Transaction ids                                                         *)
(***************************************************************************)
\* C1: every Event in the log carries a transaction id that was allocated
\* by make_transaction_id before the Event was appended, and all Events one
\* hook invocation appended carry the single id that invocation allocated.
C1_TxIdAllocatedBeforeAppend ==
    /\ \A i \in 1..Len(log) :
          /\ log[i].event_tx_id \in 1..appended[i].latest
          /\ txs[log[i].event_tx_id].by = appended[i].by
          /\ txid[appended[i].by] = Some(log[i].event_tx_id)
    /\ \A p \in Procs : Cardinality(AllocatedBy(p)) <= 1

\* Two invocations have appended, one of them a batch of two Events.
C1_Witness ==
    \E p, q \in Procs :
        /\ p # q
        /\ Cardinality(PositionsOf(p)) >= 2
        /\ PositionsOf(q) # {}

\* C2 as stated: the Events appended between one make_transaction_id call
\* and the next, by whichever process, carry the id the first call returned,
\* that is the newest id at the moment of the append.
C2_Original ==
    \A i \in 1..Len(log) : log[i].event_tx_id = appended[i].latest

\* C2 amended: an Event appended between one make_transaction_id call and
\* the next carries the id returned by the latest call of the process that
\* appends it; that is the newest id exactly when no other process has
\* allocated an id since.
C2_SharesOwnLatestId ==
    \A i \in 1..Len(log) :
        LET own == {t \in 1..appended[i].latest : txs[t].by = appended[i].by}
        IN  /\ own # {}
            /\ log[i].event_tx_id = SetMax(own)
            /\ (log[i].event_tx_id = appended[i].latest
                  <=> \A t \in 1..appended[i].latest :
                         t > SetMax(own) => txs[t].by = appended[i].by)

\* One batch was appended right after its own id was allocated and another
\* after a different process had allocated a newer id.
C2_Witness ==
    /\ \E i \in 1..Len(log) : log[i].event_tx_id = appended[i].latest
    /\ \E i \in 1..Len(log) : log[i].event_tx_id < appended[i].latest

(***************************************************************************)
(* Appending                                                               *)
(***************************************************************************)
\* C3: the batch of every process whose add_events succeeded lies in the
\* log as one contiguous block, in the batch's own order, and the process
\* appended nothing outside that block.
C3_BatchesContiguous ==
    \A p \in Procs :
        added[p] = "ok" =>
            \E k \in 0..(Len(log) - Len(sent[p])) :
                /\ \A j \in 1..Len(sent[p]) : log[k + j] = sent[p][j]
                /\ PositionsOf(p) = {k + j : j \in 1..Len(sent[p])}

\* Two processes, running concurrently, each appended a batch of two.
C3_Witness ==
    \E p, q \in Procs :
        /\ p # q
        /\ added[p] = "ok" /\ Len(sent[p]) >= 2
        /\ added[q] = "ok" /\ Len(sent[q]) >= 2
        /\ txid[p][1] < txid[q][1]
        /\ SetMax(PositionsOf(q)) < SetMax(PositionsOf(p))

\* C4: when add_events fails in a handler, no Event of that batch is in the
\* log and the handler has returned an error.
C4_AppendFailureSurfaced ==
    \A p \in Procs :
        added[p] = "failed" =>
            /\ pc[p] = "done"
            /\ IsErr(ret[p])
            /\ PositionsOf(p) = {}

\* add_events failed on a batch of two while another process's batch is in
\* the log.
C4_Witness ==
    \E p, q \in Procs :
        /\ added[p] = "failed" /\ Len(sent[p]) >= 2
        /\ added[q] = "ok"

\* C5: the log is append-only: every step leaves the log it found as a
\* prefix of the log it leaves.
C5_AppendOnly ==
    [][/\ Len(log) <= Len(log')
       /\ SubSeq(log', 1, Len(log)) = log]_vars

\* The log holds the batches of two invocations.
C5_Witness ==
    /\ Len(log) >= 3
    /\ \E i, j \in 1..Len(log) : appended[i].by # appended[j].by

(***************************************************************************)
(* Malformed and excluded input lines                                      *)
(***************************************************************************)
\* The object id a single chunk of hexadecimal digits denotes.
OidOfChunk(c) == IF c = ZeroHex THEN ZeroOid ELSE <<c>>

IsRefTxGood(l) == l \in {RefTxGood1, RefTxGood2}

\* The RefUpdateEvents of the well-formed, non-excluded lines of a batch:
\* "<old> <new> <ref>" gives old, new and ref in that order.
ExpectedRefUpdates(stdin, now, event_tx_id) ==
    LET good == SelectSeq(stdin, IsRefTxGood)
    IN  [i \in 1..Len(good) |->
            RefUpdateEvent([secs |-> now \div 1000, frac |-> now % 1000],
                           event_tx_id, <<good[i][5]>>,
                           OidOfChunk(good[i][1]), OidOfChunk(good[i][3]))]

\* C6: in hook_reference_transaction with state "committed", a malformed
\* line neither fails the handler nor costs the other lines their Events:
\* unless the database itself fails, the handler returns Ok and has appended
\* exactly the RefUpdateEvents of the well-formed, non-excluded lines, in
\* input order.
C6_RefTxMalformedLineSkipped ==
    \A p \in Procs :
        (/\ pc[p] = "done"
         /\ args[p].hook = "reference-transaction"
         /\ args[p].transaction_state = "committed"
         /\ txid[p] # None)
        => /\ ret[p] \in {"Ok", "Err(add_events)"}
           /\ (ret[p] = "Err(add_events)" <=> added[p] = "failed")
           /\ (added[p] # "failed" =>
                 LogOf(p) = ExpectedRefUpdates(args[p].stdin, args[p].now,
                                               txid[p][1]))

\* A batch of a malformed line followed by a well-formed one was handled.
C6_Witness ==
    \E p \in Procs :
        /\ pc[p] = "done"
        /\ args[p].hook = "reference-transaction"
        /\ args[p].transaction_state = "committed"
        /\ Len(args[p].stdin) = 2
        /\ args[p].stdin[1] \in RefTxMalformed
        /\ IsRefTxGood(args[p].stdin[2])
        /\ ret[p] = "Ok"
        /\ Len(log) = 1

IsRewriteGood(l) == l \in {RewriteGood1, RewriteGood2}

\* The RewriteEvents of the well-formed lines of a batch.
ExpectedRewrites(stdin, now, event_tx_id) ==
    LET good == SelectSeq(stdin, IsRewriteGood)
    IN  [i \in 1..Len(good) |->
            RewriteEvent([secs |-> now \div 1000, frac |-> now % 1000],
                         event_tx_id,
                         IF good[i] = RewriteGood1 THEN <<OidA>> ELSE <<OidB>>,
                         IF good[i] = RewriteGood1 THEN <<OidB>> ELSE ZeroOid)]

\* C7: in hook_post_rewrite a malformed line is skipped: unless the database
\* itself fails, the RewriteEvents of the other lines of the batch are
\* appended.
C7_RewriteMalformedLineSkipped ==
    \A p \in Procs :
        (/\ pc[p] = "done"
         /\ args[p].hook = "post-rewrite"
         /\ txid[p] # None
         /\ added[p] # "failed")
        => LogOf(p) = ExpectedRewrites(args[p].stdin, args[p].now, txid[p][1])

\* C8: a reference-transaction line that names an excluded ref gives
\* Ok(None), whatever its other fields; no RefUpdateEvent in the log names
\* an excluded ref; and no projection, at any cursor, holds a position for
\* an excluded ref.
C8_ExcludedRefNeverLogged ==
    /\ \A p \in Procs :
          args[p].hook = "reference-transaction" =>
              \A i \in 1..Len(args[p].stdin) :
                  args[p].stdin[i] \in RefTxExcluded =>
                      parse_reference_transaction_line(
                          args[p].stdin[i], args[p].now, DummyTxId) = Ok(None)
    /\ \A i \in 1..Len(log) :
          log[i].type = "RefUpdateEvent" =>
              ~should_ignore_ref_updates(log[i].ref_name)
    /\ \A k \in 0..Len(log) :
          \A r \in DOMAIN ProjectionAt(log, k).refs :
              ~should_ignore_ref_updates(r)

\* Two reference-transaction hooks have run; one had a line naming an
\* excluded ref beside a line it logged, the other only an excluded line.
C8_Witness ==
    \E p, q \in Procs :
        /\ p # q
        /\ pc[p] = "done" /\ pc[q] = "done"
        /\ args[p].hook = "reference-transaction" /\ ret[p] = "Ok"
        /\ args[q].hook = "reference-transaction" /\ ret[q] = "Ok"
        /\ \E i \in 1..Len(args[p].stdin) : args[p].stdin[i] \in RefTxExcluded
        /\ PositionsOf(p) # {}
        /\ txid[q] # None
        /\ \A i \in 1..Len(args[q].stdin) : args[q].stdin[i] \in RefTxExcluded
        /\ DOMAIN ProjectionAt(log, Len(log)).refs # {}

(***************************************************************************)
(* parse_reference_transaction_line                                        *)
(***************************************************************************)
\* What the claim says of a line whose list of fields is `fields`.
ParsesAsClaimed(fields, requireEpoch) ==
    /\ Len(fields) # 3 => ~pOut.ok
    /\ (/\ Len(fields) = 3
        /\ ParseMaybeZeroOid(fields[1]).ok
        /\ ParseMaybeZeroOid(fields[2]).ok
        /\ ~should_ignore_ref_updates(fields[3])
        /\ requireEpoch => pNow >= 0)
       => pOut = Ok(Some(
              [type |-> "RefUpdateEvent",
               timestamp |-> [secs |-> pNow \div 1000, frac |-> pNow % 1000],
               event_tx_id |-> DummyTxId,
               ref_name |-> fields[3],
               old_oid |-> ParseMaybeZeroOid(fields[1]).val,
               new_oid |-> ParseMaybeZeroOid(fields[2]).val,
               message |-> None]))

\* C9 as stated: the fields are the pieces between single spaces.
C9_Original ==
    pOut # NotParsed => ParsesAsClaimed(StrSplit(pLine), FALSE)

\* C9 amended: the fields are the pieces each ended by a single space or by
\* the end of the line, so that a space at the end of the line ends the last
\* field without starting another, and `now` is not before the epoch.
C9_ParsesThreeFields ==
    pOut # NotParsed => ParsesAsClaimed(BufSplit(pLine), TRUE)

\* A line of three fields and a trailing space was parsed into an Event.
C9_Witness ==
    /\ pOut.ok
    /\ pOut.val # None
    /\ Len(pLine) = 6
    /\ pLine[6] = SP

(***************************************************************************)
(* hook_post_commit without a commit                                       *)
(***************************************************************************)
\* C10: when hook_post_commit finds no HEAD oid it returns Ok, and when it
\* finds a HEAD oid whose commit the repository does not have it returns
\* the "BUG" error; in both cases it allocates no transaction id and leaves
\* the log as it was.
C10_PostCommitWithoutCommit ==
    [][\A p \in Procs :
          (/\ pc[p] = "idle"
           /\ pc'[p] = "done"
           /\ args'[p].hook = "post-commit"
           /\ (args'[p].head_oid = None \/ ~args'[p].commit_found))
          => /\ ret'[p] = IF args'[p].head_oid = None THEN "Ok" ELSE "Err(BUG)"
             /\ log' = log
             /\ appended' = appended
             /\ txs' = txs
             /\ txid'[p] = None]_vars

\* hook_post_commit returned the "BUG" error while the log holds the Events
\* of another hook.
C10_Witness ==
    \E p \in Procs :
        /\ pc[p] = "done"
        /\ args[p].hook = "post-commit"
        /\ args[p].head_oid # None
        /\ ~args[p].commit_found
        /\ ret[p] = "Err(BUG)"
        /\ log # <<>>

(***************************************************************************)
(* The replayer of the warning                                             *)
(***************************************************************************)
\* C11: the EventReplayer that hook_post_rewrite uses for the warning about
\* abandoned commits is built after the handler's add_events has completed:
\* up to its default cursor it holds every RewriteEvent the invocation
\* appended, at the place it has in the log.
C11_ReplayerBuiltAfterAppend ==
    \A p \in Procs :
        post[p].replayer # None
        => LET event_replayer == post[p].replayer[1]
           IN  /\ added[p] = "ok"
               /\ Cardinality(PositionsOf(p)) = Len(sent[p])
               /\ \A i \in PositionsOf(p) :
                      /\ i <= make_default_cursor(event_replayer)
                      /\ event_replayer[i] = log[i]
                      /\ log[i].type = "RewriteEvent"

\* The warning was computed by an invocation that appended four Events.
C11_Witness ==
    \E p \in Procs :
        /\ post[p].replayer # None
        /\ Len(sent[p]) = 4
        /\ Cardinality(PositionsOf(p)) = 4

(***************************************************************************)
(* The projection                                                          *)
(***************************************************************************)
\* The RefUpdateEvents of the ref among the first k Events of the log.
UpdatesOf(ref_name, k) ==
    {i \in 1..k : log[i].type = "RefUpdateEvent" /\ log[i].ref_name = ref_name}

\* The projection at cursor k is determined by the first k Events: the refs
\* it knows are those updated in the prefix, each at the new oid of its last
\* RefUpdateEvent in the prefix.
ProjectionOfPrefix(k) ==
    LET proj == ProjectionAt(log, k)
    IN  /\ proj = ProjectionAt(SubSeq(log, 1, k), k)
        /\ DOMAIN proj.refs =
               {log[i].ref_name : i \in {j \in 1..k : log[j].type = "RefUpdateEvent"}}
        /\ \A ref_name \in DOMAIN proj.refs :
               proj.refs[ref_name] = log[SetMax(UpdatesOf(ref_name, k))].new_oid

\* C12: for every log and every cursor k, projectionAt(k) depends only on
\* the first k Events, every ref being at the new oid of the last
\* RefUpdateEvent for it within that prefix; and appending further Events
\* never changes the projection at an earlier cursor.
C12_ProjectionOfPrefix ==
    /\ [](\A k \in 0..Len(log) : ProjectionOfPrefix(k))
    /\ [][\A k \in 0..Len(log) :
             ProjectionAt(log', k) = ProjectionAt(log, k)]_vars

\* The end-to-end scenario: the branch is created at A in transaction 1 and
\* moved to B in transaction 2, so that the projection after transaction 1
\* has it at A and the projection at the end has it at B.
C12_Witness ==
    /\ Len(log) = 4
    /\ log[1].type = "CommitEvent" /\ log[1].event_tx_id = 1
    /\ log[2].type = "RefUpdateEvent" /\ log[2].event_tx_id = 1
    /\ log[3].type = "RewriteEvent" /\ log[3].event_tx_id = 2
    /\ log[4].type = "RefUpdateEvent" /\ log[4].event_tx_id = 2
    /\ log[4].ref_name = <<RefBranch>>
    /\ ProjectionAt(log, 2).refs[<<RefBranch>>] = <<OidA>>
    /\ ProjectionAt(log, 4).refs[<<RefBranch>>] = <<OidB>>


\* The log ends with HideEvent(X) followed by UnhideEvent(X).
EndsWithHideUnhide ==
    /\ Len(log) >= 2
    /\ log[Len(log) - 1].type = "HideEvent"
    /\ log[Len(log)].type = "UnhideEvent"
    /\ log[Len(log)].commit_oid = log[Len(log) - 1].commit_oid

\* C13 as stated: for every log and every commit X, after HideEvent(X) and
\* then UnhideEvent(X) have been appended X is not hidden and the projection
\* equals the projection before either Event.
C13_Original ==
    EndsWithHideUnhide
    => LET X == log[Len(log)].commit_oid
           before == ProjectionAt(log, Len(log) - 2)
           after == ProjectionAt(log, Len(log))
       IN  X \notin after.hidden /\ after = before

\* C13: after HideEvent(X) and then UnhideEvent(X) have been appended, X is
\* not hidden, the refs are where they were, and the hidden set is the one
\* before either Event without X; so the projection equals the projection
\* before either Event exactly when X was not hidden before.
C13_HideUnhideRoundTrip ==
    EndsWithHideUnhide
    => LET X == log[Len(log)].commit_oid
           before == ProjectionAt(log, Len(log) - 2)
           after == ProjectionAt(log, Len(log))
       IN  /\ X \notin after.hidden
           /\ after.refs = before.refs
           /\ after.hidden = before.hidden \ {X}
           /\ (after = before) <=> (X \notin before.hidden)

\* A was hidden already when HideEvent(A) and UnhideEvent(A) were appended,
\* and the branch has a position.
C13_Witness ==
    /\ EndsWithHideUnhide
    /\ log[Len(log)].commit_oid \in ProjectionAt(log, Len(log) - 2).hidden
    /\ ProjectionAt(log, Len(log)).refs # EmptyMap

(***************************************************************************)
(* The rewrite analyzer                                                    *)
(***************************************************************************)
\* The object ids of the model.
AllOids == RepoCommits \cup {<<OidX>>}

\* The nodes of the graph that have the commit among their parents.
ChildrenIn(graph, oid) == {c \in DOMAIN graph : oid \in graph[c].parents}

FullGraph == GraphOver(RepoCommits)

\* What find_abandoned_children reports for the commit at the end of the
\* log, in the graph of all commits.
ReportedAtEnd(oid) == find_abandoned_children(FullGraph, log, Len(log), oid)

PutTwice ==
    /\ Len(puts) >= 2
    /\ {puts[Len(puts)][1], puts[Len(puts)][2]}
           = {puts[Len(puts) - 1][1], puts[Len(puts) - 1][2]}
    /\ puts[Len(puts)][3] = puts[Len(puts) - 1][3]

\* C16: after any sequence of puts, get(a, b) and get(b, a) return the same
\* value; and after put(a, b, v) was done twice, get(a, b) returns Some(v).
C16_MergeBaseCacheSymmetric ==
    /\ \A a \in AllOids, b \in AllOids :
           merge_base_get(merge_base_db, a, b)
               = merge_base_get(merge_base_db, b, a)
    /\ PutTwice
       => merge_base_get(merge_base_db,
                         puts[Len(puts)][1], puts[Len(puts)][2])
              = Some(puts[Len(puts)][3])

\* A result was put for A and B, another result was then put twice for the
\* same two commits, and that one is returned for B and A.
C16_Witness ==
    /\ Len(puts) = 3
    /\ PutTwice
    /\ puts[1][1] = <<OidA>> /\ puts[1][2] = <<OidB>>
    /\ puts[3][1] = <<OidA>> /\ puts[3][2] = <<OidB>>
    /\ puts[1][3] # puts[3][3]
    /\ merge_base_get(merge_base_db, <<OidB>>, <<OidA>>) = Some(puts[3][3])

(***************************************************************************)
(* The commit graph                                                        *)
(***************************************************************************)
RECURSIVE GraphAncestors(_, _)
\* The nodes reachable from the nodes S by the parent edges of the graph.
GraphAncestors(graph, S) ==
    LET T == S \cup UNION {graph[c].parents : c \in S \cap DOMAIN graph}
    IN  IF T = S THEN S ELSE GraphAncestors(graph, T)

Acyclic(graph) ==
    \A n \in DOMAIN graph : n \notin GraphAncestors(graph, graph[n].parents)

\* The oids warn_abandoned hands to make_graph as HEAD, main branch and
\* branches.
HandedToMakeGraph(p) ==
    (IF repo_head = None THEN {} ELSE {repo_head[1]})
        \cup {args[p].main_branch_oid}
        \cup DOMAIN args[p].branch_oid_to_names

\* C17 as stated: every graph make_graph returns is acyclic, and every oid
\* among the HEAD oid, the main branch oid and the branch oids is a node.
C17_Original ==
    \A p \in Procs :
        post[p].graph # None
        => /\ Acyclic(post[p].graph[1])
           /\ HandedToMakeGraph(p) \subseteq DOMAIN post[p].graph[1]

\* C17: every graph make_graph returns is acyclic; every oid among the HEAD
\* oid, the main branch oid and the branch oids that the repository can
\* resolve is a node, and one that it cannot resolve is skipped: it is not
\* a node, and the graph is built all the same.
C17_GraphOfResolvableOids ==
    \A p \in Procs :
        post[p].graph # None
        => /\ Acyclic(post[p].graph[1])
           /\ \A oid \in HandedToMakeGraph(p) :
                  (oid \in DOMAIN post[p].graph[1]) <=> (oid \in RepoCommits)

\* A graph was built with a branch at an oid that names no object and a
\* branch at C: C is a node, with its ancestors A and M.
C17_Witness ==
    \E p \in Procs :
        /\ post[p].graph # None
        /\ <<OidX>> \in HandedToMakeGraph(p)
        /\ <<OidX>> \notin DOMAIN post[p].graph[1]
        /\ {<<OidC>>, <<OidA>>, <<OidM>>} \subseteq DOMAIN post[p].graph[1]

(***************************************************************************)
(* The batch of hook_post_rewrite                                          *)
(***************************************************************************)
\* The oids of a line of the rewritten-list file, "<old> <new>" with both
\* ids at their full width.
OldOfLine(line) == <<line[1]>>
NewOfLine(line) == OidOfChunk(line[4])

\* For every old oid of the lines, the new oid of the last line with it.
LastNewOids(stdin) ==
    [old \in {OldOfLine(stdin[i]) : i \in 1..Len(stdin)} |->
        NewOfLine(stdin[SetMax({i \in 1..Len(stdin) :
                                   OldOfLine(stdin[i]) = old})])]

\* C18: hook_post_rewrite appends exactly one RewriteEvent per input line,
\* in input order, all with the same transaction id and timestamp, also
\* when several lines have the same old oid; the map of rewritten oids that
\* it hands to move_branches and, by its keys, to warn_abandoned has for
\* every old oid only the new oid of the last line with it.
C18_OneRewriteEventPerLine ==
    \A p \in Procs :
        (args[p].hook = "post-rewrite" /\ added[p] = "ok")
        => LET stdin == args[p].stdin
               events == LogOf(p)
           IN  /\ Len(events) = Len(stdin)
               /\ \A i \in 1..Len(stdin) :
                      events[i] = RewriteEvent(AsSecsF64(args[p].now),
                                      txid[p][1], OldOfLine(stdin[i]),
                                      NewOfLine(stdin[i]))
               /\ post[p].rewritten_oids = Some(LastNewOids(stdin))
               /\ post[p].moved = IF args[p].do_extra_post_rewrite
                                  THEN Some(LastNewOids(stdin)) ELSE None
               /\ post[p].abandoned # None
                  => post[p].abandoned[1].children
                         \subseteq UNION {ChildrenIn(post[p].graph[1], old) :
                                             old \in DOMAIN LastNewOids(stdin)}

\* The rewritten-list had C rewritten to D and then, from
\* hook_drop_commit_if_empty, to zero: four Events were appended for the four
\* lines and move_branches was handed a map in which C goes to zero.
C18_Witness ==
    \E p \in Procs :
        /\ pc[p] = "done"
        /\ added[p] = "ok"
        /\ Len(args[p].stdin) = 4
        /\ Len(LogOf(p)) = 4
        /\ LogOf(p)[2].old_commit_oid = <<OidC>>
        /\ LogOf(p)[2].new_commit_oid = <<OidD>>
        /\ LogOf(p)[3].old_commit_oid = <<OidC>>
        /\ LogOf(p)[3].new_commit_oid = ZeroOid
        /\ post[p].moved # None
        /\ post[p].moved[1][<<OidC>>] = ZeroOid
        /\ post[p].abandoned # None

(***************************************************************************)
(* The warning about abandoned commits                                     *)
(***************************************************************************)
\* What find_abandoned_children returns for the commit, for the replayer and
\* the graph of process p's warning.
FoundBy(p, oid) ==
    find_abandoned_children(post[p].graph[1], post[p].replayer[1],
                            Len(post[p].replayer[1]), oid)

\* C19: warn_abandoned reports the union, over all rewritten old oids, of
\* the abandoned children that find_abandoned_children returns, each child
\* once; it counts a branch name only if the branch is at an old oid for
\* which find_abandoned_children returned Some, each name once; and it
\* prints the warning if and only if one of the two sets is not empty.
C19_WarnAbandonedAggregates ==
    \A p \in Procs :
        post[p].abandoned # None
        => LET olds == DOMAIN post[p].rewritten_oids[1]
               names == args[p].branch_oid_to_names
               reported == post[p].abandoned[1]
           IN  /\ \A c \in AllOids :
                      c \in reported.children
                      <=> \E old \in olds : /\ FoundBy(p, old) # None
                                            /\ c \in FoundBy(p, old)[1][2]
               /\ \A n \in {"b1", "b2"} :
                      n \in reported.branches
                      <=> \E old \in olds \cap DOMAIN names :
                              /\ FoundBy(p, old) # None
                              /\ n \in names[old]
               /\ reported.children \subseteq AllOids
               /\ reported.branches \subseteq {"b1", "b2"}
               /\ post[p].warned
                  <=> (reported.children # {} \/ reported.branches # {})

\* A and C were rewritten, with a branch at each: C is an abandoned child of
\* A, so the branch at A is counted; C has no children, so the branch at C
\* is not; the warning was printed.
C19_Witness ==
    \E p \in Procs :
        /\ post[p].abandoned # None
        /\ {<<OidA>>, <<OidC>>} \subseteq DOMAIN post[p].rewritten_oids[1]
        /\ {<<OidA>>, <<OidC>>} \subseteq DOMAIN args[p].branch_oid_to_names
        /\ FoundBy(p, <<OidA>>) # None
        /\ FoundBy(p, <<OidC>>) = None
        /\ post[p].abandoned[1].children = {<<OidC>>}
        /\ post[p].abandoned[1].branches = {"b1"}
        /\ post[p].warned

(***************************************************************************)
(* hook_reference_transaction without events                               *)
(***************************************************************************)
\* Every line of the batch names an excluded ref or does not parse.
AllSkipped(stdin) ==
    \A i \in 1..Len(stdin) : stdin[i] \in RefTxExcluded \cup RefTxMalformed

\* C20: hook_reference_transaction changes the persisted state only when
\* the transaction state is "committed": for any other state it returns Ok
\* without allocating a transaction id or appending an Event; and for a
\* "committed" batch in which every line is excluded or malformed it never
\* calls add_events and leaves the log as it was.
C20_RefTxWithoutEvents ==
    [][\A p \in Procs :
          (/\ pc[p] # "done"
           /\ pc'[p] = "done"
           /\ args'[p].hook = "reference-transaction")
          => /\ args'[p].transaction_state # "committed"
                => /\ ret'[p] = "Ok"
                   /\ txs' = txs
                   /\ txid'[p] = None
                   /\ log' = log
                   /\ appended' = appended
                   /\ added'[p] = "-"
             /\ (/\ args'[p].transaction_state = "committed"
                 /\ AllSkipped(args'[p].stdin))
                => /\ ret'[p] \in {"Ok", "Err(make_transaction_id)"}
                   /\ log' = log
                   /\ appended' = appended
                   /\ added'[p] = "-"
                   /\ sent'[p] = <<>>]_vars

\* A "committed" batch of an excluded line and a malformed line was handled:
\* a transaction id was allocated, add_events was not called, and the log is
\* empty.
C20_Witness ==
    \E p \in Procs :
        /\ pc[p] = "done"
        /\ args[p].hook = "reference-transaction"
        /\ args[p].transaction_state = "committed"
        /\ Len(args[p].stdin) = 2
        /\ args[p].stdin[1] \in RefTxExcluded
        /\ args[p].stdin[2] \in RefTxMalformed
        /\ txid[p] # None
        /\ ret[p] = "Ok"
        /\ added[p] = "-"
        /\ log = <<>>

(***************************************************************************)
(* Spurious post-rewrite events                                            *)
(***************************************************************************)
\* The RewriteEvents of the lines of a rewritten-list, one per line.
RewritesOfLines(stdin, now, event_tx_id) ==
    [i \in 1..Len(stdin) |->
        RewriteEvent(AsSecsF64(now), event_tx_id,
                     OldOfLine(stdin[i]), NewOfLine(stdin[i]))]

\* C21: when a post-rewrite hook is spurious (rewrite_type is "amend" while
\* a rebase is underway) its RewriteEvents are appended exactly as for a call
\* that is not spurious, and move_branches is called as for such a call;
\* only the "processing" message and the warning about abandoned commits are
\* suppressed, and the warning is run only when the setting
\* restack-warn-abandoned is on as well.
C21_SpuriousStillAppends ==
    \A p \in Procs :
        (/\ args[p].hook = "post-rewrite"
         /\ pc[p] = "appended" \/ ret[p] \in {"Ok", "Err(add_events)"})
        => LET a == args[p]
               spurious == a.rewrite_type = "amend" /\ a.is_rebase_underway
           IN  /\ post[p].is_spurious_event = Some(spurious)
               /\ added[p] = IF ret[p] = "Err(add_events)" THEN "failed"
                             ELSE "ok"
               /\ sent[p] = RewritesOfLines(a.stdin, a.now, txid[p][1])
               /\ LogOf(p) = IF added[p] = "ok" THEN sent[p] ELSE <<>>
               /\ post[p].processing = IF spurious THEN None
                                       ELSE Some(Len(a.stdin))
               /\ (post[p].moved # None)
                      <=> (added[p] = "ok" /\ a.do_extra_post_rewrite)
               /\ pc[p] = "appended"
                  => (added[p] = "ok" /\ a.restack_warn_abandoned /\ ~spurious)
               /\ pc[p] = "done"
                  => /\ (post[p].abandoned # None)
                            <=> /\ added[p] = "ok"
                                /\ a.restack_warn_abandoned
                                /\ ~spurious
                     /\ post[p].warned => post[p].abandoned # None

\* A spurious call with the setting on and the extra post-rewrite file
\* present returned: its four RewriteEvents are in the log and move_branches
\* was called, but no message was printed and no warning was computed.
C21_Witness ==
    \E p \in Procs :
        /\ pc[p] = "done"
        /\ args[p].hook = "post-rewrite"
        /\ args[p].rewrite_type = "amend"
        /\ args[p].is_rebase_underway
        /\ args[p].restack_warn_abandoned
        /\ args[p].do_extra_post_rewrite
        /\ added[p] = "ok"
        /\ Len(LogOf(p)) = 4
        /\ post[p].moved # None
        /\ post[p].processing = None
        /\ post[p].abandoned = None

=============================================================================
